---- MODULE Spec2Model ----
(***************************************************************************)
(* Model of the reminder bot in src/main.py: the persisted list and its    *)
(* startup migration, the slash commands /reminder and /delreminder, and   *)
(* the one-minute reminder_loop with its awaits.  A step of the model is   *)
(* what the asyncio event loop runs between two awaits.  The text of the   *)
(* messages, and the fields name and guild_id that only appear in it, are  *)
(* left out.  log, sent, last_id, reply and gone record what has happened;  *)
(* the program does not read them.                                         *)
(***************************************************************************)
EXTENDS Integers, Sequences, FiniteSets, TLC

\* ------------------------------------------------------------------ bounds
MaxReminders == 1      \* /reminder is not issued once the list is this long
MaxId == 1             \* /reminder is not issued once next_id exceeds this

\* ------------------------------------------------- datetime.date (stdlib)
\* A date object is its proleptic Gregorian ordinal (date.toordinal()); the
\* "YYYY-MM-DD" text kept in a record is the triple <<year, month, day>>.
IsLeap(y) == (y % 4 = 0 /\ y % 100 # 0) \/ y % 400 = 0

DaysInMonth(y, m) ==
    IF m = 2 THEN (IF IsLeap(y) THEN 29 ELSE 28)
    ELSE IF m \in {4, 6, 9, 11} THEN 30 ELSE 31

DaysBeforeYear(y) ==
    LET p == y - 1 IN p * 365 + (p \div 4) - (p \div 100) + (p \div 400)

RECURSIVE DaysBeforeMonth(_, _)
DaysBeforeMonth(y, m) ==
    IF m = 1 THEN 0 ELSE DaysBeforeMonth(y, m - 1) + DaysInMonth(y, m - 1)

\* a parser that takes every triple for a date
AnyYmd(t) == TRUE

\* date(y, m, d) and strptime raise ValueError exactly when this is false
ValidYmd(t) ==
    /\ t[1] \in 1..9999
    /\ t[2] \in 1..12
    /\ t[3] \in 1..DaysInMonth(t[1], t[2])

ToOrdinal(t) == DaysBeforeYear(t[1]) + DaysBeforeMonth(t[1], t[2]) + t[3]

YearRange == 2023..2027

YearOf(n) ==
    CHOOSE y \in YearRange : DaysBeforeYear(y) < n /\ n <= DaysBeforeYear(y + 1)

FromOrdinal(n) ==
    LET y == YearOf(n)
        k == n - DaysBeforeYear(y)
        m == CHOOSE mm \in 1..12 :
                DaysBeforeMonth(y, mm) < k /\ k <= DaysBeforeMonth(y, mm) + DaysInMonth(y, mm)
    IN <<y, m, k - DaysBeforeMonth(y, m)>>

\* ----------------------------------------------------------- environment
Users == {1, 2}                 \* interaction.user.id
ChannelOk == 10                 \* a channel bot.get_channel resolves
ChannelGone == 20               \* a channel bot.get_channel does not know
Cached == {ChannelOk}

get_channel(c) == c \in Cached

\* the days on which the host clock is observed, in increasing order
ClockDays == {ToOrdinal(<<2024, 12, 28>>), ToOrdinal(<<2025, 1, 2>>),
              ToOrdinal(<<2025, 2, 28>>), ToOrdinal(<<2026, 1, 2>>)}

FirstDay == CHOOSE d \in ClockDays : \A e \in ClockDays : d <= e

\* ---------------------------------------------------------------- records
NoId == 0        \* a persisted record written before ids existed: no "id" key

NoDay == 0       \* `today` outside a pass

Rec(i, a, c, d, rp, k) ==
    [id |-> i, author_id |-> a, channel_id |-> c, date |-> d,
     repeat |-> rp, days_before |-> k]

\* the /reminder invocations explored
Requests ==
    { [user |-> 1, channel |-> ChannelOk,   date_str |-> <<2025, 1, 2>>,  repeat |-> "yearly", days_before |-> 5],
      [user |-> 2, channel |-> ChannelOk,   date_str |-> <<2024, 2, 29>>, repeat |-> "yearly", days_before |-> 0],
      [user |-> 1, channel |-> ChannelOk,   date_str |-> <<2025, 1, 2>>,  repeat |-> "once",   days_before |-> 5],
      [user |-> 1, channel |-> ChannelOk,   date_str |-> <<2025, 2, 30>>, repeat |-> "once",   days_before |-> 0],
      [user |-> 2, channel |-> ChannelOk,   date_str |-> <<2025, 1, 2>>,  repeat |-> "once",   days_before |-> -1] }

\* reminders.json: missing, unreadable as JSON, or holding a list
Absent == [kind |-> "absent", data |-> << >>]
Corrupt == [kind |-> "corrupt", data |-> << >>]

\* a save that writes nothing and leaves no file
save_nothing(reminders_list) == Absent

\* lines 48-50: the file after save_reminders(reminders_list)
save_reminders(reminders_list) == [kind |-> "json", data |-> reminders_list]

\* the contents of reminders.json found at startup
PersistedFiles ==
    { Absent,
      Corrupt,
      save_reminders(<< Rec(NoId, 1, ChannelGone, <<2025, 1, 2>>, "once", 0),
                        Rec(1, 2, ChannelOk, <<2025, 1, 2>>, "once", 0) >>),
      save_reminders(<< Rec(2, 2, ChannelOk, <<2025, 1, 2>>, "once", 0),
                        Rec(NoId, 1, ChannelGone, <<2025, 1, 2>>, "once", 0) >>),
      save_reminders(<< Rec(NoId, 1, ChannelOk, <<2025, 1, 2>>, "once", 0),
                        Rec(NoId, 1, ChannelOk, <<2024, 1, 2>>, "yearly", 0),
                        Rec(1, 1, ChannelOk, <<2025, 1, 2>>, "once", 0) >>) }

Range(s) == {s[i] : i \in 1..Len(s)}

VARIABLES
    file,        \* reminders.json
    reminders,   \* the module-level list
    next_id,     \* the module-level counter
    booted,      \* the module body (lines 53-67) has run
    ready,       \* the connection layer has reported ready
    clock,       \* what date.today() returns now
    pc,          \* reminder_loop: "stopped", "idle", "early", "dayof", "failed"
    today,       \* reminder_loop local
    idx,         \* position of the list iterator of `for rem in reminders`
    to_remove,   \* reminder_loop local
    log,         \* one entry per reminder the current/last pass has reached
    error,       \* the exception that ended reminder_loop, "none" otherwise
    creating,    \* users whose /reminder is suspended at line 151
    last_id,     \* the largest id /reminder has stored in this process, 0 before
    sent,        \* <<record, kind, day>> of the notices delivered
    reply,       \* what the step just taken answered, "none" if not recorded
    gone         \* the records /delreminder took out while they were in to_remove

vars == <<file, reminders, next_id, booted, ready, clock, pc, today, idx,
          to_remove, log, error, creating, last_id, sent, reply,
          gone>>

\* ------------------------------------------------------- reminder storage
\* lines 38-45
load_reminders(f) == IF f.kind = "json" THEN f.data ELSE << >>

\* lines 56-67: returns the migrated list and the counter
RECURSIVE MigrateFrom(_, _, _)
MigrateFrom(rs, i, current_max_id) ==
    IF i > Len(rs) THEN [list |-> rs, max |-> current_max_id]
    ELSE IF rs[i].id = NoId
         THEN MigrateFrom([rs EXCEPT ![i].id = current_max_id + 1], i + 1, current_max_id + 1)
         ELSE MigrateFrom(rs, i + 1, IF rs[i].id > current_max_id THEN rs[i].id ELSE current_max_id)

Startup ==
    /\ ~booted
    /\ LET loaded == load_reminders(file)
           m == MigrateFrom(loaded, 1, 0)
       IN IF loaded # << >>
          THEN /\ reminders' = m.list
               /\ next_id' = m.max + 1
               /\ file' = save_reminders(m.list)
          ELSE /\ reminders' = loaded
               /\ next_id' = 1
               /\ UNCHANGED file
    /\ booted' = TRUE
    /\ reply' = "none"
    /\ UNCHANGED <<error, ready, clock, pc, today, idx, to_remove, log, creating,
                   last_id, sent, gone>>

Init ==
    /\ file \in PersistedFiles
    /\ reminders = << >>
    /\ next_id = 1
    /\ booted = FALSE
    /\ ready = FALSE
    /\ clock = FirstDay
    /\ pc = "stopped"
    /\ today = NoDay
    /\ idx = 0
    /\ to_remove = << >>
    /\ log = << >>
    /\ error = "none"
    /\ creating = {}
    /\ last_id = 0
    /\ sent = {}
    /\ reply = "none"
    /\ gone = {}

\* the log describes the pass in progress or the pass that has just ended; a
\* command or a clock step outside a pass forgets it
ForgetBut(g) ==
    IF pc \in {"early", "dayof"}
    THEN UNCHANGED <<log, today>> /\ gone' = g
    ELSE log' = << >> /\ today' = NoDay /\ gone' = {}

Forget == ForgetBut(gone)

\* the notices that can still be repeated: those of records in the list, for
\* days a pass can still evaluate against
Keep(st, list, day) == {n \in st : n[1] \in Range(list) /\ n[3] >= day}

\* ----------------------------------------------------------------- events
\* is_running() answering False whatever the loop does
never_running == FALSE

\* lines 72-85; reminder_loop.start() first awaits before_reminder_loop
is_running == pc \notin {"stopped", "failed"}

on_ready ==
    /\ booted
    /\ ready' = TRUE
    /\ pc' = IF ~is_running THEN "idle" ELSE pc
    /\ error' = "none"
    /\ reply' = IF pc \in {"early", "dayof"} THEN "running" ELSE "none"
    /\ UNCHANGED <<file, reminders, next_id, booted, clock, today, idx,
                   to_remove, log, creating, last_id, sent, gone>>

\* --------------------------------------------------------- slash commands
strptime(date_str) == ToOrdinal(date_str)
isoformat(d) == FromOrdinal(d)

\* lines 116-157: up to the await of the confirmation message (a user has
\* at most one /reminder suspended at that await)
slash_reminder(q) ==
    /\ booted /\ ready
    /\ q.user \notin creating
    /\ Len(reminders) < MaxReminders
    /\ next_id <= MaxId
    /\ IF ~ValidYmd(q.date_str)
       THEN /\ reply' = "bad_date"
            /\ UNCHANGED <<reminders, file, creating, last_id>>
       ELSE IF q.days_before < 0
       THEN /\ reply' = "bad_days"
            /\ UNCHANGED <<reminders, file, creating, last_id>>
       ELSE LET event_date == strptime(q.date_str)
                reminder == Rec(next_id, q.user, q.channel, isoformat(event_date),
                                q.repeat, q.days_before)
            IN /\ reminders' = Append(reminders, reminder)
               /\ file' = save_reminders(reminders')
               /\ creating' = creating \cup {q.user}
               /\ last_id' = IF next_id > last_id THEN next_id ELSE last_id
               /\ reply' = "none"
    /\ Forget
    /\ UNCHANGED <<error, next_id, booted, ready, clock, pc, idx, to_remove,
                   sent>>

\* line 159, after the confirmation message was sent
slash_reminder_resume(u) ==
    /\ u \in creating
    /\ creating' = creating \ {u}
    /\ next_id' = next_id + 1
    /\ Forget
    /\ reply' = "none"
    /\ UNCHANGED <<error, file, reminders, booted, ready, clock, pc, idx,
                   to_remove, last_id, sent>>

\* the await at line 151 raises: the handler ends before line 159
slash_reminder_raise(u) ==
    /\ u \in creating
    /\ creating' = creating \ {u}
    /\ Forget
    /\ reply' = "none"
    /\ UNCHANGED <<error, file, reminders, next_id, booted, ready, clock, pc, idx, to_remove, last_id, sent>>

\* line 165
user_rems(user_id) == SelectSeq(reminders, LAMBDA r : r.author_id = user_id)

\* the order of the stored "YYYY-MM-DD" texts: character by character, which
\* for zero-padded fields is field by field
TextLess(d, e) ==
    \/ d[1] < e[1]
    \/ d[1] = e[1] /\ d[2] < e[2]
    \/ d[1] = e[1] /\ d[2] = e[2] /\ d[3] < e[3]

\* sorting by the id alone
IdLess(a, b) == a.id < b.id

\* line 175: the order of the keys (x["date"], x["id"])
KeyLess(a, b) == TextLess(a.date, b.date) \/ (a.date = b.date /\ a.id < b.id)

\* sorted(): stable, ascending by key
RECURSIVE Insert(_, _)
Insert(s, x) ==
    IF s = << >> THEN <<x>>
    ELSE IF KeyLess(x, Head(s)) THEN <<x>> \o s
    ELSE <<Head(s)>> \o Insert(Tail(s), x)

RECURSIVE sorted(_)
sorted(s) ==
    IF s = << >> THEN << >> ELSE Insert(sorted(SubSeq(s, 1, Len(s) - 1)), s[Len(s)])

\* lines 174-180: the records behind the lines of the message, in order
lines(user_id) == sorted(user_rems(user_id))

\* lines 162-183
slash_myreminders(user_id) ==
    /\ booted /\ ready
    /\ reply' = IF user_rems(user_id) = << >> THEN "none" ELSE "listed"
    /\ Forget
    /\ UNCHANGED <<file, reminders, next_id, error, clock, booted, ready, pc, idx,
                   to_remove, creating, last_id, sent>>

\* list.pop() in place of list.remove(x): drops the last element
ListPop(s, x) == SubSeq(s, 1, Len(s) - 1)

\* list.remove(x): drops the first element equal to x
ListRemove(s, x) ==
    LET i == CHOOSE k \in 1..Len(s) : s[k] = x /\ \A j \in 1..(k - 1) : s[j] # x
    IN SubSeq(s, 1, i - 1) \o SubSeq(s, i + 1, Len(s))

\* lines 190-195: index of the first record with that id, 0 for None
Find(reminder_id) ==
    IF \E k \in 1..Len(reminders) : reminders[k].id = reminder_id
    THEN CHOOSE k \in 1..Len(reminders) :
            /\ reminders[k].id = reminder_id
            /\ \A j \in 1..(k - 1) : reminders[j].id # reminder_id
    ELSE 0

DeleteIds == 1..MaxId

\* lines 188-215
slash_delreminder(reminder_id, user_id) ==
    /\ booted /\ ready
    /\ LET found == Find(reminder_id)
       IN IF found = 0
          THEN /\ reply' = "not_found"
               /\ UNCHANGED <<reminders, file>>
          ELSE IF reminders[found].author_id # user_id
          THEN /\ reply' = "forbidden"
               /\ UNCHANGED <<reminders, file>>
          ELSE /\ reminders' = ListRemove(reminders, reminders[found])
               /\ file' = save_reminders(reminders')
               /\ reply' = "deleted"
    /\ sent' = Keep(sent, reminders', NoDay)
    /\ ForgetBut(IF reply' = "deleted" /\ reminders[Find(reminder_id)] \in Range(to_remove)
                 THEN gone \cup {reminders[Find(reminder_id)]} ELSE gone)
    /\ UNCHANGED <<error, next_id, booted, ready, clock, pc, idx, to_remove,
                   creating, last_id>>

\* ---------------------------------------------------------- reminder loop
Entry(r, e, d, o) == [rem |-> r, early |-> e, dayof |-> d, out |-> o]

\* line 262
this_year_date(td, event_date) ==
    <<FromOrdinal(td)[1], FromOrdinal(event_date)[2], FromOrdinal(event_date)[3]>>

\* lines 245-247 and 265-267: the guard of the early reminder
early_due(td, days_before, target) ==
    days_before > 0 /\ td = target - days_before

\* the day-of guard reading the clock again instead of the local today
dayof_due_now(td, target) == clock = target

\* the day-of guard catching up on a day that has passed
dayof_overdue(td, target) == td >= target

\* lines 254 and 274: the guard of the day-of reminder
dayof_due(td, target) == td = target

\* the date the two guards of record r compare `today` with
\* (event_date at lines 246/254, this_year_date at lines 266/274)
Target(td, r) ==
    IF r.repeat = "once" THEN strptime(r.date)
    ELSE ToOrdinal(this_year_date(td, strptime(r.date)))

\* lines 225-277: the loop body for the record r, up to its first await,
\* its `continue`, its end or the exception it raises
Body(td, r) ==
    IF ~ValidYmd(r.date) THEN Entry(r, FALSE, FALSE, "bad_date")
    ELSE IF ~get_channel(r.channel_id) THEN Entry(r, FALSE, FALSE, "no_channel")
    ELSE IF r.repeat \notin {"once", "yearly"} THEN Entry(r, FALSE, FALSE, "done")
    ELSE IF r.repeat = "yearly" /\ ~ValidYmd(this_year_date(td, strptime(r.date)))
         THEN Entry(r, FALSE, FALSE, "ValueError")
    ELSE IF early_due(td, r.days_before, Target(td, r))
         THEN Entry(r, TRUE, FALSE, "await_early")
    ELSE IF dayof_due(td, Target(td, r))
         THEN Entry(r, FALSE, TRUE, "await_dayof")
    ELSE Entry(r, FALSE, FALSE, "done")

\* the for statement from iterator position i on, run until the pass awaits,
\* raises or runs out of records
RECURSIVE Run(_, _, _)
Run(td, i, lg) ==
    IF i >= Len(reminders) THEN [pc |-> "exhausted", idx |-> i, log |-> lg]
    ELSE LET e == Body(td, reminders[i + 1])
             lg2 == Append(lg, e)
         IN IF e.out = "await_early" THEN [pc |-> "early", idx |-> i + 1, log |-> lg2]
            ELSE IF e.out = "await_dayof" THEN [pc |-> "dayof", idx |-> i + 1, log |-> lg2]
            ELSE IF e.out = "ValueError" THEN [pc |-> "failed", idx |-> i + 1, log |-> lg2]
            ELSE Run(td, i + 1, lg2)

\* lines 280-283
RECURSIVE BatchRemove(_, _)
BatchRemove(list, tr) ==
    IF tr = << >> THEN list
    ELSE BatchRemove(IF Head(tr) \in Range(list) THEN ListRemove(list, Head(tr)) ELSE list,
                     Tail(tr))

\* resume the for statement with locals td, i, lg, tr; lines 279-284 when
\* the iterator is exhausted (st: the notices delivered so far)
Continue(td, i, lg, tr, st) ==
    LET r == Run(td, i, lg)
    IN /\ idx' = IF r.pc \in {"early", "dayof"} THEN r.idx ELSE 0
       /\ log' = r.log
       /\ error' = IF r.pc = "failed" THEN "ValueError" ELSE "none"
       /\ IF r.pc = "exhausted"
          THEN /\ pc' = "idle"
               /\ to_remove' = << >>
               /\ reminders' = BatchRemove(reminders, tr)
               /\ file' = IF tr # << >> THEN save_reminders(reminders') ELSE file
          ELSE /\ pc' = r.pc
               /\ to_remove' = IF r.pc = "failed" THEN << >> ELSE tr
               /\ UNCHANGED <<reminders, file>>
       /\ sent' = Keep(st, reminders', NoDay)

\* lines 220-223: the timer fires
Tick ==
    /\ pc = "idle" /\ ready
    /\ today' = clock
    /\ gone' = {}
    /\ Continue(clock, 0, << >>, << >>, sent)
    /\ reply' = "none"
    /\ UNCHANGED <<next_id, booted, ready, clock, creating, last_id>>

rem == log[Len(log)].rem

Notice(kind) == <<rem, kind, today>>

\* to_remove.append(rem) in the yearly branch as well
MarkAny(tr, r) == Append(tr, r)

\* line 258
Mark(tr, r) == IF r.repeat = "once" THEN Append(tr, r) ELSE tr

\* channel.send returned: lines 248/268 then 254/274, or 255/275 then 258
SendReturns ==
    /\ pc \in {"early", "dayof"}
    /\ IF pc = "early"
       THEN IF dayof_due(today, Target(today, rem))
            THEN /\ pc' = "dayof"
                 /\ log' = [log EXCEPT ![Len(log)].dayof = TRUE,
                                       ![Len(log)].out = "await_dayof"]
                 /\ sent' = sent \cup {Notice("early")}
                 /\ UNCHANGED <<idx, to_remove, reminders, file, error>>
            ELSE Continue(today, idx, [log EXCEPT ![Len(log)].out = "done"],
                          to_remove, sent \cup {Notice("early")})
       ELSE Continue(today, idx, [log EXCEPT ![Len(log)].out = "done"],
                     Mark(to_remove, rem), sent \cup {Notice("dayof")})
    /\ reply' = "none"
    /\ UNCHANGED <<next_id, booted, ready, clock, today, creating, last_id, gone>>

\* channel.send raised: the exception leaves reminder_loop
SendRaises ==
    /\ pc \in {"early", "dayof"}
    /\ pc' = "failed"
    /\ error' = "send_error"
    /\ log' = [log EXCEPT ![Len(log)].out = "send_error"]
    /\ to_remove' = << >>
    /\ idx' = 0
    /\ reply' = "none"
    /\ UNCHANGED <<file, reminders, next_id, booted, ready, clock, today,
                   creating, last_id, sent, gone>>

\* tasks.loop runs the coroutine again after an error it takes for a
\* connection problem
LoopRetries ==
    /\ pc = "failed"
    /\ error = "send_error"
    /\ pc' = "idle"
    /\ error' = "none"
    /\ reply' = "none"
    /\ UNCHANGED <<file, reminders, next_id, booted, ready, clock, today, idx,
                   to_remove, log, creating, last_id, sent, gone>>

\* the oldest day a pass can still evaluate against
Horizon(c) == IF pc \in {"early", "dayof"} THEN today ELSE c

\* the host clock moves on
ClockAdvances ==
    /\ booted
    /\ \E d \in ClockDays :
          /\ d > clock
          /\ clock' = d
          /\ sent' = Keep(sent, reminders, Horizon(d))
    /\ Forget
    /\ reply' = "none"
    /\ UNCHANGED <<error, file, reminders, next_id, booted, ready, pc, idx,
                   to_remove, creating, last_id>>

Next ==
    \/ Tick
    \/ SendReturns
    \/ SendRaises
    \/ LoopRetries
    \/ ClockAdvances
    \/ Startup
    \/ on_ready
    \/ \E q \in Requests : slash_reminder(q)
    \/ \E u \in Users : slash_reminder_resume(u)
    \/ \E u \in Users : slash_reminder_raise(u)
    \/ \E u \in Users : slash_myreminders(u)
    \/ \E i \in DeleteIds, u \in Users : slash_delreminder(i, u)

Spec == Init /\ [][Next]_vars

\* ================================================================ claims
Kind == IF pc = "early" THEN "early" ELSE "dayof"

Failed(e) == e.out \in {"no_channel", "send_error"}

\* the records of list s equal to r
Count(r, s) == Cardinality({k \in 1..Len(s) : s[k] = r})

\* C1: no notice is delivered twice for the same reminder and the same date:
\* whenever a send returns, the notice it delivered (reminder, kind, the
\* pass's today) had not been delivered before.
C1_NoRefire == [][SendReturns => <<rem, Kind, today>> \notin sent]_vars

\* C2: a once reminder whose day-of condition a pass has found true is not
\* in the store when the next pass can start.
C2_OnceGoneBeforeNextPass ==
    pc = "idle" =>
        \A k \in 1..Len(log) :
            (log[k].rem.repeat = "once" /\ log[k].dayof)
                => log[k].rem \notin Range(reminders)

\* C3: every /reminder that stores a record gives it an id strictly greater
\* than every id /reminder has stored before in this process, so no two
\* created reminders share an id, also when the two calls overlap.
C3_DistinctIncreasingIds ==
    [][(booted /\ Len(reminders') > Len(reminders))
          => reminders'[Len(reminders')].id > last_id]_vars

\* C4: after the startup load-and-migrate step every record has an id and
\* no two records share one.
C4_MigratedIdsUnique ==
    (booted /\ ~ready) =>
        /\ \A k \in 1..Len(reminders) : reminders[k].id # NoId
        /\ \A j, k \in 1..Len(reminders) :
              reminders[j].id = reminders[k].id => j = k

\* C5: evaluating a yearly Feb-29 reminder in a pass whose today lies in a
\* non-leap year does not raise.
C5_Feb29DoesNotFail ==
    \A k \in 1..Len(log) :
        ( /\ log[k].rem.repeat = "yearly"
          /\ log[k].rem.date[2] = 2 /\ log[k].rem.date[3] = 29
          /\ ~IsLeap(YearOf(today)) )
            => log[k].out # "ValueError"

\* C6: a send that raises does not end the pass: reminder_loop is never
\* stopped by a delivery error.
C6_DeliveryFailureNotFatal == ~(pc = "failed" /\ error = "send_error")

\* C7: a once reminder evaluated on its target date whose day-of delivery
\* failed (channel not resolved, or send raised) is in neither the list nor
\* the file once that pass has ended.
C7_FailedOnceStillRemoved ==
    pc = "idle" =>
        \A k \in 1..Len(log) :
            ( /\ log[k].rem.repeat = "once"
              /\ ValidYmd(log[k].rem.date)
              /\ ToOrdinal(log[k].rem.date) = today
              /\ Failed(log[k]) )
                => /\ log[k].rem \notin Range(reminders)
                   /\ log[k].rem \notin Range(file.data)

\* C8: a pass that evaluates a yearly reminder with days_before > 0 on the
\* day that lies days_before days before an anniversary of its date (this
\* year's or next year's) sends the early reminder.
IsEarlyDay(td, r) ==
    \E y \in {YearOf(td), YearOf(td) + 1} :
        /\ ValidYmd(<<y, r.date[2], r.date[3]>>)
        /\ td = ToOrdinal(<<y, r.date[2], r.date[3]>>) - r.days_before

C8_YearlyEarlyWarning ==
    \A k \in 1..Len(log) :
        ( /\ log[k].rem.repeat = "yearly"
          /\ log[k].rem.days_before > 0
          /\ log[k].out \notin {"bad_date", "no_channel", "ValueError"}
          /\ IsEarlyDay(today, log[k].rem) )
            => log[k].early

\* C9: /delreminder answers not_found exactly when no record has the id and
\* forbidden exactly when the (first) record with the id has another author;
\* in both cases list, file and counter stay as they are.  Otherwise it
\* answers deleted, exactly that record leaves the list, the others keep
\* content and order, and the file equals the new list.
DeletePost(i, u) ==
    LET has == \E k \in 1..Len(reminders) : reminders[k].id = i
        at == CHOOSE k \in 1..Len(reminders) :
                 /\ reminders[k].id = i
                 /\ \A j \in 1..(k - 1) : reminders[j].id # i
    IN /\ (reply' = "not_found") <=> ~has
       /\ (reply' = "forbidden") <=> (has /\ reminders[at].author_id # u)
       /\ reply' \in {"not_found", "forbidden"}
             => /\ reminders' = reminders
                /\ file' = file
                /\ next_id' = next_id
       /\ reply' \notin {"not_found", "forbidden"}
             => /\ reply' = "deleted"
                /\ reminders[at].author_id = u
                /\ Len(reminders') = Len(reminders) - 1
                /\ \A k \in 1..Len(reminders') :
                      reminders'[k] = IF k < at THEN reminders[k] ELSE reminders[k + 1]
                /\ file'.kind = "json" /\ file'.data = reminders'
                /\ next_id' = next_id

C9_DeleteContract ==
    [][\A i \in DeleteIds, u \in Users : slash_delreminder(i, u) => DeletePost(i, u)]_vars

\* a record was deleted and another one is still in the list
C9_Witness == reply = "deleted" /\ reminders # << >>

\* C10: only a /delreminder of its own author takes a yearly record out of
\* the list, and a pass that evaluates a yearly record on the month and day
\* of its date, in whatever year, finds its day-of condition true.
C10_YearlyKept ==
    [][ /\ \A r \in Range(reminders) :
              (r.repeat = "yearly" /\ Count(r, reminders') < Count(r, reminders))
                  => slash_delreminder(r.id, r.author_id)
        /\ \A k \in 1..Len(log') :
              ( /\ log'[k].rem.repeat = "yearly"
                /\ log'[k].out \notin {"bad_date", "no_channel", "await_early"}
                /\ FromOrdinal(today')[2] = log'[k].rem.date[2]
                /\ FromOrdinal(today')[3] = log'[k].rem.date[3] )
                  => log'[k].dayof ]_vars

\* the day-of notice of a yearly record was delivered in a year after the
\* year of its date, the pass has ended and the record is still in the list
C10_Witness ==
    /\ pc = "idle"
    /\ \E k \in 1..Len(log) :
          /\ log[k].rem.repeat = "yearly"
          /\ log[k].dayof /\ log[k].out = "done"
          /\ YearOf(today) > log[k].rem.date[1]
          /\ log[k].rem \in Range(reminders)

\* the date the rule of the specification compares today with: the target
\* date of a once reminder, the target date in today's year of a yearly one
\* (0, that no day equals, when that year has no such date)
EffectiveDate(td, r) ==
    IF r.repeat = "once" THEN ToOrdinal(r.date)
    ELSE IF r.date[3] <= DaysInMonth(YearOf(td), r.date[2])
         THEN ToOrdinal(<<YearOf(td), r.date[2], r.date[3]>>)
         ELSE 0

DayofExpected(td, r) == td = EffectiveDate(td, r)

EarlyExpected(td, r) ==
    /\ r.days_before > 0
    /\ EffectiveDate(td, r) # 0
    /\ td = EffectiveDate(td, r) - r.days_before

\* the entries of log lg that record a day-of notice of r that went out
DayofSent(r, lg) ==
    Cardinality({k \in 1..Len(lg) : lg[k].rem = r /\ lg[k].dayof /\ lg[k].out = "done"})

EarlySent(r, lg) ==
    Cardinality({k \in 1..Len(lg) : lg[k].rem = r /\ lg[k].early
                                      /\ lg[k].out \in {"done", "await_dayof"}})

\* C11: when no other /reminder is suspended, the id /reminder gives a new
\* record is a positive integer greater than every id in the list (loaded
\* and migrated ids included) and greater than every id /reminder has given
\* before in this process, so an id is not given twice, also after its
\* reminder was deleted.
C11_FreshIds ==
    [][(booted /\ creating = {} /\ Len(reminders') > Len(reminders))
          => LET id == reminders'[Len(reminders')].id
             IN /\ id >= 1
                /\ id > last_id
                /\ \A k \in 1..Len(reminders) : id > reminders[k].id]_vars

\* C12: whenever control can pass to another activity, reminders.json holds
\* the list in memory, same records in the same order: every step that
\* changes the list or the file leaves the file holding the new list, and
\* before the first such step the list is empty.
C12_FileMirrorsList ==
    [][ /\ (reminders' # reminders \/ file' # file)
              => (file'.kind = "json" /\ file'.data = reminders')
        /\ booted => \/ file.kind = "json" /\ file.data = reminders
                     \/ file.kind # "json" /\ reminders = << >> ]_vars

\* a pass has removed a delivered once record, another record is left, and
\* the file holds what the list holds
C12_Witness ==
    /\ pc = "idle"
    /\ \E k \in 1..Len(log) :
          /\ log[k].rem.repeat = "once" /\ log[k].dayof /\ log[k].out = "done"
          /\ log[k].rem \notin Range(reminders)
    /\ reminders # << >>
    /\ file.kind = "json" /\ file.data = reminders

\* C13: once a pass is over, every stored reminder with a resolvable channel
\* and a valid date, none of whose own sends raised, has had its day-of
\* notice sent in that pass exactly if today is its effective date, and its
\* early notice exactly if days_before > 0 and today is days_before days
\* before its effective date.
C13_PassSendsWhatIsDue ==
    (pc \in {"idle", "failed"} /\ today # NoDay) =>
        \A r \in Range(reminders) \cup {log[k].rem : k \in 1..Len(log)} :
            ( /\ get_channel(r.channel_id)
              /\ r.date[3] <= DaysInMonth(r.date[1], r.date[2])
              /\ \A k \in 1..Len(log) : log[k].rem = r => log[k].out # "send_error" )
                => /\ DayofExpected(today, r) <=> DayofSent(r, log) > 0
                   /\ EarlyExpected(today, r) <=> EarlySent(r, log) > 0

\* C14: a /reminder whose date does not parse or whose days_before is
\* negative leaves the list, the file and next_id as they are (and suspends
\* nothing), so the next valid /reminder gets the id it would have got.
BadRequests ==
    {q \in Requests : \/ q.date_str[2] \notin 1..12
                      \/ q.date_str[3] \notin 1..DaysInMonth(q.date_str[1], q.date_str[2])
                      \/ q.days_before < 0}

C14_RejectedBeforeMutation ==
    [][\A q \in BadRequests :
          slash_reminder(q) => UNCHANGED <<reminders, file, next_id, creating>>]_vars

\* a request was rejected for its date after an earlier /reminder had stored
\* a record and written the file
C14_Witness == reply = "bad_date" /\ last_id >= 1 /\ file.kind = "json"

Ahead(r, s, i) == Cardinality({k \in 1..Len(s) : k > i /\ s[k] = r})

\* C16: a pass evaluates every reminder that is stored when it starts and
\* is not itself deleted exactly once: a command that runs while the pass is
\* suspended on a send leaves every record it does not add or remove as
\* often ahead of the pass as it was.
C16_ConsistentSnapshot ==
    [][(pc \in {"early", "dayof"} /\ pc' = pc /\ idx' = idx /\ reminders' # reminders)
          => \A r \in Range(reminders) :
                Count(r, reminders') = Count(r, reminders)
                    => Ahead(r, reminders', idx') = Ahead(r, reminders, idx)]_vars

\* C17: when the owner has deleted a once reminder that the pass in progress
\* had already put in to_remove, the batch removal at the end of that pass
\* takes no record out of the list whose day-of notice that pass has not
\* sent, and takes the deleted one out no second time.
C17_BatchRemovesOnlySent ==
    [][(pc \in {"early", "dayof"} /\ pc' = "idle")
          => \A r \in Range(reminders) :
                Count(r, reminders) - Count(r, reminders')
                    <= DayofSent(r, log') - (IF r \in gone THEN 1 ELSE 0)]_vars

\* C18: while a pass is in progress its today does not change, whatever the
\* clock does, and every early and day-of decision the pass has taken is
\* the one the rule gives for that today.
C18_TodayReadOnce ==
    [][ /\ (pc \in {"early", "dayof"}) => today' = today
        /\ \A k \in 1..Len(log') :
              log'[k].out \in {"done", "await_early", "await_dayof"}
                  => /\ log'[k].dayof <=> DayofExpected(today', log'[k].rem)
                     /\ log'[k].early <=> EarlyExpected(today', log'[k].rem) ]_vars

\* the pass is suspended on the send for its second record and the clock
\* no longer shows the day the pass started on
C18_Witness ==
    /\ pc = "dayof"
    /\ clock # today
    /\ Len(log) >= 2
    /\ log[1].dayof /\ log[1].out = "done"

\* C19: a pass is in progress only after the ready event; a pass starts only
\* when the loop is idle, so no two passes overlap; and a ready event that
\* finds the loop running leaves the loop and its pass as they are.
C19_SingleLoop ==
    [][ /\ (pc' \in {"early", "dayof"}) => ready'
        /\ (today' # NoDay /\ today' # today) => (pc = "idle" /\ ready)
        /\ (on_ready /\ pc \in {"idle", "early", "dayof"})
              => UNCHANGED <<pc, today, idx, to_remove, log>> ]_vars

\* a ready event has arrived while a pass was suspended on a send
C19_Witness == reply = "running" /\ pc \in {"early", "dayof"} /\ log # << >>

\* C20: a once reminder whose date lies before the today of a pass gets no
\* notice in that pass, and no step of the pass takes it out of the list or
\* the file: only /delreminder of its author does.
C20_PastOnceStays ==
    [][\A r \in Range(reminders) :
          (r.repeat = "once" /\ today' # NoDay /\ ToOrdinal(r.date) < today')
              => /\ Count(r, reminders') < Count(r, reminders)
                      => slash_delreminder(r.id, r.author_id)
                 /\ r \in Range(reminders') => r \in Range(file'.data)
                 /\ \A k \in 1..Len(log') :
                       log'[k].rem = r => (~log'[k].early /\ ~log'[k].dayof)]_vars

\* a pass has evaluated a once reminder after its date and has ended; the
\* reminder is still in the list and the file
C20_Witness ==
    /\ pc = "idle"
    /\ \E k \in 1..Len(log) :
          /\ log[k].rem.repeat = "once"
          /\ ToOrdinal(log[k].rem.date) < today
          /\ log[k].out = "done"
          /\ log[k].rem \in Range(reminders)
          /\ log[k].rem \in Range(file.data)
====
